---- MODULE Spec2Model ----
(***************************************************************************)
(* A model of src/repository-ingest.py: the RepositoryIngest class         *)
(* (get_repo_dirs, process_repository, process_latest_repo) and the        *)
(* command-line entry point main().                                        *)
(*                                                                         *)
(* Strings are sequences of one-character strings.  The four file-name     *)
(* suffixes the code appends to the identifier are each written as one     *)
(* element, since the code only ever appends them whole.  Paths follow     *)
(* posixpath (os.path on the platforms where "/" is the separator).        *)
(***************************************************************************)
EXTENDS Integers, Sequences, FiniteSets, TLC

VARIABLES
    fs,        \* the filesystem's regular files: path -> content
    fs0,       \* fs as it was when the current invocation started
    pc,        \* position of the command-line invocation
    args,      \* the parsed command line (argparse namespace)
    temp_dir,  \* RepositoryIngest.temp_dir
    call,      \* arguments of the process_repository call
    loc,       \* locals of process_repository
    result,    \* value returned by process_repository
    raised,    \* the exception that reached main's handler, or NoError
    exitCode,  \* process exit status, or Running
    trace,     \* ingestion calls and file writes of this invocation, in order
    listing,   \* what the temporary directory held when get_repo_dirs ran
    runs,      \* number of invocations started
    rpc,       \* concurrent runs: position of each run
    rres,      \* concurrent runs: each run's ingestion result
    rlast,     \* concurrent runs: per file, the run that changed it last
    rover      \* concurrent runs: per file, whether two handles were open at once

vars == <<fs, fs0, pc, args, temp_dir, call, loc, result, raised, exitCode,
          trace, listing, runs, rpc, rres, rlast, rover>>

cliVars == <<fs0, pc, args, temp_dir, call, loc, result, raised, exitCode,
             trace, listing, runs>>

raceVars == <<rpc, rres, rlast, rover>>

---------------------------------------------------------------------------
(* Bounds *)

MaxRefLen == 4      \* longest generated body of a repository reference
MaxBlobLen == 1     \* longest text the ingestion returns
MaxDirs == 3        \* most subdirectories listed in the temporary directory
MaxTime == 2        \* creation timestamps range over 1..MaxTime
MaxRuns == 2        \* invocations of the command line in one behaviour
MaxRaceLen == 2     \* longest summary a concurrent run writes

---------------------------------------------------------------------------
(* Python values *)

None == <<"None">>

\* Python truth of an optional string: None and "" are both false.
Truthy(x) == x # None /\ x # <<>>

NoError == "NoError"
Running == "Running"

---------------------------------------------------------------------------
(* Strings *)

RECURSIVE SeqsUpTo(_, _)
SeqsUpTo(S, n) ==
    IF n = 0 THEN {<< >>}
    ELSE LET shorter == SeqsUpTo(S, n - 1)
         IN  shorter \cup {Append(s, c) : s \in shorter, c \in S}

StartsWith(s, p) ==
    /\ Len(s) >= Len(p)
    /\ SubSeq(s, 1, Len(p)) = p

EndsWith(s, p) ==
    /\ Len(s) >= Len(p)
    /\ SubSeq(s, Len(s) - Len(p) + 1, Len(s)) = p

\* str.rfind('/') + 1: the index after the last "/", 0 + 1 when there is none
RECURSIVE AfterLastSlash(_, _)
AfterLastSlash(s, i) ==
    IF i = 0 THEN 1
    ELSE IF s[i] = "/" THEN i + 1
    ELSE AfterLastSlash(s, i - 1)

\* s.split('/')
RECURSIVE SplitSlash(_)
SplitSlash(s) ==
    IF \A i \in 1..Len(s) : s[i] # "/" THEN << s >>
    ELSE LET k == CHOOSE i \in 1..Len(s) :
                      /\ s[i] = "/"
                      /\ \A j \in 1..(i - 1) : s[j] # "/"
         IN  << SubSeq(s, 1, k - 1) >> \o SplitSlash(SubSeq(s, k + 1, Len(s)))

\* '/'.join(comps)
RECURSIVE JoinSlash(_)
JoinSlash(comps) ==
    IF comps = << >> THEN << >>
    ELSE IF Len(comps) = 1 THEN comps[1]
    ELSE comps[1] \o <<"/">> \o JoinSlash(Tail(comps))

DotGit == <<".", "g", "i", "t">>
Dot == <<".">>
DotDot == <<".", ".">>

---------------------------------------------------------------------------
(* os.path *)

\* posixpath.join(a, b): an absolute b discards a
PathJoin(a, b) ==
    IF StartsWith(b, <<"/">>) THEN b
    ELSE IF a = << >> \/ EndsWith(a, <<"/">>) THEN a \o b
    ELSE a \o <<"/">> \o b

\* posixpath.basename(p) and p.split('/')[-1]: what follows the last "/"
BaseName(p) == SubSeq(p, AfterLastSlash(p, Len(p)), Len(p))

\* the component loop of posixpath.normpath
RECURSIVE NormComps(_, _, _)
NormComps(comps, initial, new_comps) ==
    IF comps = << >> THEN new_comps
    ELSE LET comp == Head(comps)
             rest == Tail(comps)
         IN  IF comp = << >> \/ comp = Dot
               THEN NormComps(rest, initial, new_comps)
             ELSE IF \/ comp # DotDot
                     \/ (initial = 0 /\ new_comps = << >>)
                     \/ (new_comps # << >> /\ new_comps[Len(new_comps)] = DotDot)
               THEN NormComps(rest, initial, Append(new_comps, comp))
             ELSE IF new_comps # << >>
               THEN NormComps(rest, initial, SubSeq(new_comps, 1, Len(new_comps) - 1))
             ELSE NormComps(rest, initial, new_comps)

\* posixpath.normpath
NormPath(path) ==
    IF path = << >> THEN Dot
    ELSE LET initial ==
                 IF ~StartsWith(path, <<"/">>) THEN 0
                 ELSE IF StartsWith(path, <<"/", "/">>)
                         /\ ~StartsWith(path, <<"/", "/", "/">>) THEN 2
                 ELSE 1
             comps == NormComps(SplitSlash(path), initial, << >>)
             joined == [i \in 1..initial |-> "/"] \o JoinSlash(comps)
         IN  IF joined = << >> THEN Dot ELSE joined

\* os.path.expanduser('~') joined with 'AppData', 'Local', 'Temp', 'codeinsight'
DefaultTempDir == <<"/", "h", "/", "AppData/Local/Temp/codeinsight">>

---------------------------------------------------------------------------
(* process_repository: defaulting rules and file names *)

\* if not output_dir: output_dir = self.temp_dir
ResolveOutputDir(output_dir, tmp) ==
    IF Truthy(output_dir) THEN output_dir ELSE tmp

\* what repo_id.rstrip('.git') would do: every trailing '.', 'g', 'i', 't' removed
RECURSIVE StripDotGitChars(_)
StripDotGitChars(repo_id) ==
    IF repo_id # << >> /\ repo_id[Len(repo_id)] \in {".", "g", "i", "t"}
      THEN StripDotGitChars(SubSeq(repo_id, 1, Len(repo_id) - 1))
    ELSE repo_id

\* a '.git' suffix of the last URL segment is removed, once
StripDotGit(repo_id) ==
    IF EndsWith(repo_id, DotGit) THEN SubSeq(repo_id, 1, Len(repo_id) - 4)
    ELSE repo_id

\* if not repo_id: directory name, or last part of the URL
ResolveRepoId(repo_path, repo_id, isdir) ==
    IF Truthy(repo_id) THEN repo_id
    ELSE IF isdir THEN BaseName(NormPath(repo_path))
    ELSE LET parts == SplitSlash(repo_path)
         IN  StripDotGit(parts[Len(parts)])

FileKinds == <<"summary", "tree", "content", "metadata">>

Suffix(kind) ==
    CASE kind = "summary"  -> <<"_summary.txt">>
      [] kind = "tree"     -> <<"_tree.txt">>
      [] kind = "content"  -> <<"_content.txt">>
      [] kind = "metadata" -> <<"_metadata.json">>

\* os.path.join(output_dir, f"{repo_id}_<kind>.<ext>")
OutputFile(output_dir, repo_id, kind) ==
    PathJoin(output_dir, repo_id \o Suffix(kind))

OutputFiles(output_dir, repo_id) ==
    [k \in {"summary", "tree", "content", "metadata"} |->
        OutputFile(output_dir, repo_id, k)]

\* a metadata dictionary whose tree_length is taken from the summary
MetadataTreeFromSummary(repo_id, now, files, summary, tree, content) ==
    [repository_id |-> repo_id,
     processed_at  |-> now,
     files |-> [summary |-> files["summary"],
                tree    |-> files["tree"],
                content |-> files["content"]],
     stats |-> [summary_length |-> Len(summary),
                tree_length    |-> Len(summary),
                content_length |-> Len(content)]]

\* a metadata dictionary that records the file names without the directory
MetadataBareNames(repo_id, now, files, summary, tree, content) ==
    [repository_id |-> repo_id,
     processed_at  |-> now,
     files |-> [summary |-> repo_id \o Suffix("summary"),
                tree    |-> repo_id \o Suffix("tree"),
                content |-> repo_id \o Suffix("content")],
     stats |-> [summary_length |-> Len(summary),
                tree_length    |-> Len(tree),
                content_length |-> Len(content)]]

\* the metadata dictionary
Metadata(repo_id, now, files, summary, tree, content) ==
    [repository_id |-> repo_id,
     processed_at  |-> now,
     files |-> [summary |-> files["summary"],
                tree    |-> files["tree"],
                content |-> files["content"]],
     stats |-> [summary_length |-> Len(summary),
                tree_length    |-> Len(tree),
                content_length |-> Len(content)]]

\* the dictionary process_repository returns
ReturnValue(files, summary, tree, content) ==
    [summary_file  |-> files["summary"],
     tree_file     |-> files["tree"],
     content_file  |-> files["content"],
     metadata_file |-> files["metadata"],
     summary |-> summary,
     tree    |-> tree,
     content |-> content]

---------------------------------------------------------------------------
(* Files *)

\* what open(path, 'r+') would do to a file that exists: nothing is cut
TruncateKeeping(f, path) ==
    [q \in DOMAIN f \cup {path} |-> IF q \in DOMAIN f THEN f[q] ELSE << >>]

\* open(path, 'w'): the file is created or cut to length zero
Truncate(f, path) ==
    [q \in DOMAIN f \cup {path} |-> IF q = path THEN << >> ELSE f[q]]

\* f.write(data) through a handle opened with 'w', whose offset is 0: the
\* data replaces what the file holds from its start, and what lies beyond
\* the data stays
Overwrite(f, path, data) ==
    [f EXCEPT ![path] = data \o SubSeq(@, Len(data) + 1, Len(@))]

\* what open(path, 'a') would do: the data is added to what the file holds
WriteFileAppend(f, path, data) ==
    IF path \in DOMAIN f THEN [f EXCEPT ![path] = @ \o data]
    ELSE Overwrite(Truncate(f, path), path, data)

\* with open(path, 'w') as f: f.write(data)
WriteFile(f, path, data) == Overwrite(Truncate(f, path), path, data)

\* what a write that raises may leave behind: the file as it was (open
\* failed), or cut and holding some part of the data (write or close failed)
FailedWrite(f, path, data) ==
    {f, Truncate(f, path)}
        \cup {WriteFile(f, path, SubSeq(data, 1, n)) : n \in 1..(Len(data) - 1)}

---------------------------------------------------------------------------
(* Inputs of the command-line workflow *)

RepoArgs == {None, << >>, <<"u", "/", "g">>}
TempDirArgs == {None, <<"t">>}
OutputDirArgs == {None, <<"/", "o">>, <<"o">>}
RepoIdArgs == {None, <<"r">>, <<"/", "r">>}

\* the command lines tried; an option the chosen branch never reads is left out
ArgSets ==
    {a \in [repo : RepoArgs, latest : BOOLEAN, temp_dir : TempDirArgs,
            output_dir : OutputDirArgs, repo_id : RepoIdArgs] :
        /\ Truthy(a.repo) => ~a.latest
        /\ ~Truthy(a.repo) => a.repo_id = None
        /\ (~Truthy(a.repo) /\ ~a.latest) => a.output_dir = None}

\* texts the ingestion may return
Blobs(c) == SeqsUpTo({c}, MaxBlobLen)

IngestResults(c) == Blobs(c) \X Blobs(c) \X Blobs(c)

\* exceptions the ingestion may raise (subclasses of Exception)
IngestErrors == {"IngestError", "OSError"}

DirNames == {<<"d">>, <<"e">>, <<"f">>, <<"h">>}

\* a state of the temporary directory: its subdirectories in the order
\* os.listdir gives them, their creation times, and whether listing works
Listings(n) ==
    {[ok |-> TRUE, names |-> l, ctime |-> t] :
        l \in {x \in SeqsUpTo(DirNames, n) :
                  \A i, j \in 1..Len(x) : i # j => x[i] # x[j]},
        t \in [DirNames -> 1..MaxTime]}

ListingError == [ok |-> FALSE, names |-> << >>, ctime |-> [d \in DirNames |-> 1]]

NoListing == [ok |-> TRUE, names |-> << >>, ctime |-> [d \in DirNames |-> 1]]

\* what the workflow specification lets the temporary directory hold
SmallListings ==
    {ListingError, NoListing,
     [ok |-> TRUE, names |-> << <<"d">> >>, ctime |-> [d \in DirNames |-> 1]]}

NoCall == [repo_path |-> None, output_dir |-> None, repo_id |-> None, via |-> "none"]

NoFiles == [k \in {"summary", "tree", "content", "metadata"} |-> None]

NoLoc ==
    [output_dir |-> None, repo_id |-> None, isdir |-> FALSE,
     summary |-> None, tree |-> None, content |-> None, files |-> NoFiles]

NoResult ==
    [summary_file |-> None, tree_file |-> None, content_file |-> None,
     metadata_file |-> None, summary |-> None, tree |-> None, content |-> None]

\* a file that is none of the workflow's outputs
OtherFile == <<"o", "/", "k">>

RaceIdle == [p \in {1, 2} |-> [file |-> 0, step |-> "idle"]]

RaceInit ==
    /\ rpc = RaceIdle
    /\ rres = [p \in {1, 2} |-> <<None, None, None>>]
    /\ rlast = [k \in {"summary", "tree", "content", "metadata"} |-> 0]
    /\ rover = [k \in {"summary", "tree", "content", "metadata"} |-> FALSE]

---------------------------------------------------------------------------
(* get_repo_dirs and the selection of process_latest_repo *)

\* a get_repo_dirs that lets the exception of os.listdir through
GetRepoDirsRaising(l) ==
    [raised |-> IF l.ok THEN NoError ELSE "OSError", dirs |-> l.names]

\* get_repo_dirs: the subdirectories; an exception of os.listdir is logged
\* and [] returned, so nothing is raised to the caller
GetRepoDirs(l) ==
    [raised |-> NoError, dirs |-> IF l.ok THEN l.names ELSE << >>]

\* an insertion that puts an element before those with an equal key, as
\* sorting in ascending order and reversing the result would
RECURSIVE InsertDescBeforeEqual(_, _, _)
InsertDescBeforeEqual(sorted, d, key) ==
    IF sorted = << >> THEN << d >>
    ELSE IF key[Head(sorted)] > key[d]
      THEN << Head(sorted) >> \o InsertDescBeforeEqual(Tail(sorted), d, key)
    ELSE << d >> \o sorted

\* list.sort(key, reverse=True) is stable: one element put in its place
\* among elements already sorted, behind those with a key at least as large
RECURSIVE InsertDesc(_, _, _)
InsertDesc(sorted, d, key) ==
    IF sorted = << >> THEN << d >>
    ELSE IF key[Head(sorted)] >= key[d]
      THEN << Head(sorted) >> \o InsertDesc(Tail(sorted), d, key)
    ELSE << d >> \o sorted

RECURSIVE SortNewestFirstFrom(_, _, _)
SortNewestFirstFrom(sorted, dirs, key) ==
    IF dirs = << >> THEN sorted
    ELSE SortNewestFirstFrom(InsertDesc(sorted, Head(dirs), key), Tail(dirs), key)

\* repo_dirs.sort(key=getctime, reverse=True)
SortNewestFirst(dirs, key) == SortNewestFirstFrom(<< >>, dirs, key)

---------------------------------------------------------------------------
(* Exception handlers: each logs and re-raises what it caught *)

\* a handler that raises an error of its own in place of the one caught
ProcessRepositoryExceptWrapping(e) == "RuntimeError"

\* process_repository: except Exception as e: logger.error(...); raise
ProcessRepositoryExcept(e) == e

\* process_latest_repo: except Exception as e: logger.error(...); raise
ProcessLatestExcept(e) == e

\* the exception as it reaches main, through the handlers on the way
Propagate(e, via) ==
    IF via = "latest" THEN ProcessLatestExcept(ProcessRepositoryExcept(e))
    ELSE ProcessRepositoryExcept(e)

Event(op, target) == [op |-> op, target |-> target]

---------------------------------------------------------------------------
(* The command-line invocation: main() *)

\* a fresh invocation with the parsed arguments a
Invoke(a) ==
    /\ args' = a
    /\ pc' = "main"
    /\ fs0' = fs
    /\ temp_dir' = None
    /\ call' = NoCall
    /\ loc' = NoLoc
    /\ result' = NoResult
    /\ raised' = NoError
    /\ exitCode' = Running
    /\ trace' = << >>
    /\ listing' = NoListing

\* a handler of main that logs the error and lets main return
RaiseWithoutExit(e) ==
    /\ raised' = e
    /\ pc' = "exit"
    /\ exitCode' = 0

\* an exception e reaches main's handler:
\* except Exception as e: logger.error(...); sys.exit(1)
Raise(e) ==
    /\ raised' = e
    /\ pc' = "exit"
    /\ exitCode' = 1

\* RepositoryIngest.__init__: the directory is set, then created
Construct ==
    /\ pc = "main"
    /\ temp_dir' = IF Truthy(args.temp_dir) THEN args.temp_dir ELSE DefaultTempDir
    /\ \/ pc' = "dispatch" /\ UNCHANGED <<raised, exitCode, trace>>
       \/ /\ Raise("OSError")
          /\ trace' = Append(trace, Event("makedirs_raised", temp_dir'))
    /\ UNCHANGED <<fs, fs0, args, call, loc, result, listing, runs>>
    /\ UNCHANGED raceVars

\* if args.repo: processor.process_repository(args.repo, ...)
MainRepo ==
    /\ pc = "dispatch"
    /\ Truthy(args.repo)
    /\ call' = [repo_path |-> args.repo, output_dir |-> args.output_dir,
                repo_id |-> args.repo_id, via |-> "repo"]
    /\ pc' = "process"
    /\ UNCHANGED <<fs, fs0, args, temp_dir, loc, result, raised, exitCode,
                   trace, listing, runs>>
    /\ UNCHANGED raceVars

\* process_latest_repo up to its call of process_repository
ProcessLatestRepo(l) ==
    /\ pc = "latest"
    /\ listing' = l
    /\ LET got == GetRepoDirs(l)
           repo_dirs == got.dirs
           listed == Append(trace, Event("process_latest", temp_dir))
       IN  IF got.raised # NoError
             THEN /\ Raise(ProcessLatestExcept(got.raised))
                  /\ trace' = listed
                  /\ UNCHANGED call
           ELSE IF repo_dirs = << >>
             THEN /\ Raise(ProcessLatestExcept("ValueError"))
                  /\ trace' = Append(listed, Event("no_repos", temp_dir))
                  /\ UNCHANGED call
           ELSE LET latest_repo == SortNewestFirst(repo_dirs, l.ctime)[1]
                IN  /\ call' = [repo_path |-> PathJoin(temp_dir, latest_repo),
                                output_dir |-> args.output_dir,
                                repo_id |-> latest_repo, via |-> "latest"]
                    /\ trace' = listed
                    /\ pc' = "process"
                    /\ UNCHANGED <<raised, exitCode>>
    /\ UNCHANGED <<fs, fs0, args, temp_dir, loc, result, runs>>
    /\ UNCHANGED raceVars

\* elif args.latest: processor.process_latest_repo(...)
MainLatest ==
    /\ pc = "dispatch"
    /\ ~Truthy(args.repo)
    /\ args.latest
    /\ pc' = "latest"
    /\ UNCHANGED <<fs, fs0, args, temp_dir, call, loc, result, raised, exitCode,
                   trace, listing, runs>>
    /\ UNCHANGED raceVars

\* else: the available repositories are listed and main returns
MainList ==
    /\ pc = "dispatch"
    /\ ~Truthy(args.repo)
    /\ ~args.latest
    /\ \E l \in SmallListings :
          /\ listing' = l
          /\ LET got == GetRepoDirs(l)
             IN  IF got.raised # NoError
                   THEN /\ Raise(got.raised)
                        /\ trace' = Append(trace, Event("list", temp_dir))
                 ELSE /\ pc' = "exit"
                      /\ exitCode' = 0
                      /\ trace' = Append(trace, Event("list", temp_dir))
                      /\ UNCHANGED raised
    /\ UNCHANGED <<fs, fs0, args, temp_dir, call, loc, result, runs>>
    /\ UNCHANGED raceVars

\* process_repository up to the ingestion: output directory and identifier
Resolve ==
    /\ pc = "process"
    /\ \E isdir \in (IF call.repo_path = << >> THEN {FALSE} ELSE BOOLEAN) :
          loc' = [loc EXCEPT
                    !.output_dir = ResolveOutputDir(call.output_dir, temp_dir),
                    !.isdir = isdir,
                    !.repo_id = ResolveRepoId(call.repo_path, call.repo_id, isdir)]
    /\ pc' = "ingest"
    /\ UNCHANGED <<fs, fs0, args, temp_dir, call, result, raised, exitCode,
                   trace, listing, runs>>
    /\ UNCHANGED raceVars

\* summary, tree, content = gitingest.ingest(repo_path), then the file names
Ingest ==
    /\ pc = "ingest"
    /\ \/ \E r \in IngestResults("a") :
             /\ loc' = [loc EXCEPT !.summary = r[1], !.tree = r[2], !.content = r[3],
                                   !.files = OutputFiles(loc.output_dir, loc.repo_id)]
             /\ trace' = Append(trace, Event("ingest", call.repo_path))
             /\ pc' = "write_summary"
             /\ UNCHANGED <<raised, exitCode>>
       \/ \E e \in IngestErrors :
             /\ trace' = Append(Append(trace, Event("ingest", call.repo_path)),
                                Event("ingest_raised", <<e>>))
             /\ Raise(Propagate(e, call.via))
             /\ UNCHANGED loc
    /\ UNCHANGED <<fs, fs0, args, temp_dir, call, result, listing, runs>>
    /\ UNCHANGED raceVars

\* one of the three text files is written, or the write raises
WriteText(at, kind, data, next) ==
    /\ pc = at
    /\ \/ /\ fs' = WriteFile(fs, loc.files[kind], data)
          /\ trace' = Append(trace, Event("write", loc.files[kind]))
          /\ pc' = next
          /\ UNCHANGED <<raised, exitCode>>
       \/ /\ fs' \in FailedWrite(fs, loc.files[kind], data)
          /\ trace' = Append(trace, Event("write_raised", loc.files[kind]))
          /\ Raise(Propagate("OSError", call.via))
    /\ UNCHANGED <<fs0, args, temp_dir, call, loc, result, listing, runs>>
    /\ UNCHANGED raceVars

WriteSummary == WriteText("write_summary", "summary", loc.summary, "write_tree")

WriteTree == WriteText("write_tree", "tree", loc.tree, "write_content")

WriteContent == WriteText("write_content", "content", loc.content, "write_metadata")

\* the metadata is built and dumped as JSON; process_repository returns, and
\* main prints the saved files and returns
WriteMetadata ==
    /\ pc = "write_metadata"
    /\ LET metadata == Metadata(loc.repo_id, runs, loc.files,
                                loc.summary, loc.tree, loc.content)
       IN  \/ /\ fs' = WriteFile(fs, loc.files["metadata"], << metadata >>)
              /\ trace' = Append(trace, Event("write", loc.files["metadata"]))
              /\ result' = ReturnValue(loc.files, loc.summary, loc.tree, loc.content)
              /\ pc' = "exit"
              /\ exitCode' = 0
              /\ UNCHANGED raised
           \/ /\ fs' \in FailedWrite(fs, loc.files["metadata"], << >>)
              /\ trace' = Append(trace, Event("write_raised", loc.files["metadata"]))
              /\ Raise(Propagate("OSError", call.via))
              /\ UNCHANGED result
    /\ UNCHANGED <<fs0, args, temp_dir, call, loc, listing, runs>>
    /\ UNCHANGED raceVars

\* after a run that succeeded the same command is run again, on the files
\* the earlier invocations left
Rerun ==
    /\ pc = "exit"
    /\ exitCode = 0
    /\ runs < MaxRuns
    /\ runs' = runs + 1
    /\ Invoke(args)
    /\ UNCHANGED fs
    /\ UNCHANGED raceVars

Init ==
    /\ fs = [q \in {OtherFile} |-> <<"a">>]
    /\ fs0 = fs
    /\ runs = 1
    /\ args \in ArgSets
    /\ pc = "main"
    /\ temp_dir = None
    /\ call = NoCall
    /\ loc = NoLoc
    /\ result = NoResult
    /\ raised = NoError
    /\ exitCode = Running
    /\ trace = << >>
    /\ listing = NoListing
    /\ RaceInit

Next ==
    \/ Construct
    \/ MainRepo
    \/ MainLatest
    \/ MainList
    \/ \E l \in SmallListings : ProcessLatestRepo(l)
    \/ Resolve
    \/ Ingest
    \/ WriteSummary
    \/ WriteTree
    \/ WriteContent
    \/ WriteMetadata
    \/ Rerun

Spec == Init /\ [][Next]_vars

---------------------------------------------------------------------------
(* The identifier and output-directory rules alone: process_repository is  *)
(* called with every reference, identifier and answer of os.path.isdir     *)
(* within the bounds, and runs up to the ingestion.                        *)

RefChars == {"/", ".", "g"}

RefTails == {<< >>, DotGit, DotGit \o DotGit, DotGit \o <<"/">>, <<"g", "i", "t">>}

PathExample == <<"/", "a", "/", "b", "/", "m", "y", "r", "e", "p", "o">>

UrlExample ==
    <<"h", "t", "t", "p", "s", ":", "/", "/", "h", "o", "s", "t", "/",
      "o", "r", "g", "/", "m", "y", "r", "e", "p", "o", ".", "g", "i", "t">>

MyRepo == <<"m", "y", "r", "e", "p", "o">>

IdRefs ==
    ({b \o t : b \in SeqsUpTo(RefChars, MaxRefLen), t \in RefTails}
        \cup {PathExample, UrlExample}) \ {<< >>}

IdArgs == {None, << >>, <<"r">>, <<"/", "r">>, DotGit}

InitId ==
    /\ fs = [q \in {OtherFile} |-> <<"a">>]
    /\ fs0 = fs
    /\ runs = 1
    /\ args = [repo |-> None, latest |-> FALSE, temp_dir |-> None,
               output_dir |-> None, repo_id |-> None]
    /\ pc = "process"
    /\ temp_dir = DefaultTempDir
    /\ call \in [repo_path : IdRefs, output_dir : {None}, repo_id : IdArgs,
                 via : {"repo"}]
    /\ loc = NoLoc
    /\ result = NoResult
    /\ raised = NoError
    /\ exitCode = Running
    /\ trace = << >>
    /\ listing = NoListing
    /\ RaceInit

NextId == Resolve \/ Ingest

SpecId == InitId /\ [][NextId]_vars

---------------------------------------------------------------------------
(* The selection of process_latest_repo alone, over every listing of the   *)
(* temporary directory within the bounds.                                  *)

InitLatest ==
    /\ fs = [q \in {OtherFile} |-> <<"a">>]
    /\ fs0 = fs
    /\ runs = 1
    /\ args \in [repo : {None}, latest : {TRUE}, temp_dir : {None},
                 output_dir : OutputDirArgs, repo_id : {None}]
    /\ pc = "latest"
    /\ temp_dir \in {DefaultTempDir, <<"t">>, <<"t", "/">>}
    /\ call = NoCall
    /\ loc = NoLoc
    /\ result = NoResult
    /\ raised = NoError
    /\ exitCode = Running
    /\ trace = << >>
    /\ listing = NoListing
    /\ RaceInit

NextLatest == \E l \in Listings(MaxDirs) \cup {ListingError} : ProcessLatestRepo(l)

SpecLatest == InitLatest /\ [][NextLatest]_vars

---------------------------------------------------------------------------
(* Properties of the identifier rules (checked under SpecId) *)

NoSlash(s) == \A i \in 1..Len(s) : s[i] # "/"

\* seg is what follows the last "/" of ref
IsLastSegment(ref, seg) ==
    /\ EndsWith(ref, seg)
    /\ NoSlash(seg)
    /\ (Len(seg) = Len(ref) \/ ref[Len(ref) - Len(seg)] = "/")

RECURSIVE TrimSlashes(_)
TrimSlashes(s) ==
    IF s # << >> /\ s[Len(s)] = "/" THEN TrimSlashes(SubSeq(s, 1, Len(s) - 1))
    ELSE s

Suffixes(s) == {SubSeq(s, i, Len(s)) : i \in 1..(Len(s) + 1)}

\* the identifier derived from a URL: its last segment, less one ".git"
UrlId(ref, id) ==
    \/ IsLastSegment(ref, id) /\ ~EndsWith(id, DotGit)
    \/ IsLastSegment(ref, id \o DotGit)

\* the identifier derived from a directory: its last name, trailing "/" aside
DirId(ref, id) ==
    /\ NoSlash(id)
    /\ \A seg \in Suffixes(TrimSlashes(ref)) :
          (IsLastSegment(TrimSlashes(ref), seg) /\ seg \notin {<< >>, Dot, DotDot})
              => id = seg

Resolved == pc \in {"ingest", "write_summary"}

\* C5 as amended: a supplied identifier that is not empty is used as it is,
\* for every reference, and the file names are built from it; with no
\* identifier, or an empty one, a directory yields its last name
\* ("/a/b/myrepo" gives "myrepo") and any other reference yields what
\* follows its last "/" with one trailing ".git" removed
\* ("https://host/org/myrepo.git" gives "myrepo").
C5_IdentifierResolution ==
    Resolved =>
        /\ Truthy(call.repo_id) => loc.repo_id = call.repo_id
        /\ (~Truthy(call.repo_id) /\ loc.isdir) => DirId(call.repo_path, loc.repo_id)
        /\ (~Truthy(call.repo_id) /\ ~loc.isdir) => UrlId(call.repo_path, loc.repo_id)
        /\ (~Truthy(call.repo_id) /\ call.repo_path = PathExample)
               => loc.repo_id = MyRepo
        /\ (~Truthy(call.repo_id) /\ call.repo_path = UrlExample /\ ~loc.isdir)
               => loc.repo_id = MyRepo
        /\ (pc = "write_summary" /\ Truthy(call.repo_id)) =>
               \A k \in DOMAIN loc.files :
                   EndsWith(loc.files[k], call.repo_id \o Suffix(k))

\* C5 as stated: every supplied identifier, the empty one too, overrides
\* the derivation.
C5_SuppliedAlwaysOverrides ==
    (Resolved /\ call.repo_id # None) => loc.repo_id = call.repo_id

\* the URL of the claim, given with an empty identifier, has been resolved
\* and its file names built
C5_Witness ==
    /\ pc = "write_summary"
    /\ call.repo_path = UrlExample
    /\ call.repo_id = << >>
    /\ loc.repo_id = MyRepo
    /\ loc.files["summary"] = DefaultTempDir \o <<"/">> \o MyRepo \o <<"_summary.txt">>

---------------------------------------------------------------------------
(* Properties of the selection (checked under SpecLatest) *)

\* runs of "/" count as one "/"
RECURSIVE Collapse(_)
Collapse(s) ==
    IF Len(s) < 2 THEN s
    ELSE IF s[1] = "/" /\ s[2] = "/" THEN Collapse(Tail(s))
    ELSE << s[1] >> \o Collapse(Tail(s))

SamePath(p, q) == Collapse(p) = Collapse(q)

\* C4: with candidates listed, process_latest_repo calls process_repository
\* for the candidate with the greatest creation time, the first such in
\* listing order, with the temporary directory joined with its name as the
\* reference and its name as the identifier.
C4_LatestSelected ==
    /\ pc = "process" =>
          /\ listing.ok
          /\ call.via = "latest"
          /\ call.output_dir = args.output_dir
          /\ SamePath(call.repo_path, temp_dir \o <<"/">> \o call.repo_id)
          /\ \E k \in 1..Len(listing.names) :
                /\ listing.names[k] = call.repo_id
                /\ \A i \in 1..Len(listing.names) :
                      listing.ctime[listing.names[i]] <= listing.ctime[call.repo_id]
                /\ \A i \in 1..(k - 1) :
                      listing.ctime[listing.names[i]] < listing.ctime[call.repo_id]
    /\ (pc = "exit" /\ listing.ok) => listing.names = << >>

\* three candidates, the second and third sharing the greatest creation
\* time: the second is processed
C4_Witness ==
    /\ pc = "process"
    /\ Len(listing.names) = 3
    /\ listing.ctime[listing.names[1]] < listing.ctime[listing.names[2]]
    /\ listing.ctime[listing.names[2]] = listing.ctime[listing.names[3]]
    /\ call.repo_id = listing.names[2]

---------------------------------------------------------------------------
(* Properties of the command-line workflow (checked under Spec) *)

EventsOf(ops) == {i \in 1..Len(trace) : trace[i].op \in ops}

HasEvent(op) == EventsOf({op}) # {}

\* process_repository returned and main exited with status 0
Success == pc = "exit" /\ exitCode = 0 /\ HasEvent("ingest")

\* the output directory of the invocation, by the defaulting rules
OutputDirInUse ==
    IF Truthy(call.output_dir) THEN call.output_dir
    ELSE IF Truthy(args.temp_dir) THEN args.temp_dir
    ELSE DefaultTempDir

Untouched(path) ==
    /\ path \in DOMAIN fs <=> path \in DOMAIN fs0
    /\ path \in DOMAIN fs => fs[path] = fs0[path]

ResultFile(kind) ==
    CASE kind = "summary"  -> result.summary_file
      [] kind = "tree"     -> result.tree_file
      [] kind = "content"  -> result.content_file
      [] kind = "metadata" -> result.metadata_file

\* C1 as stated: a successful run writes exactly the four paths
\* <outputDir>/<id>_summary.txt, _tree.txt, _content.txt and _metadata.json,
\* outputDir defaulting to the working directory; the three text files hold
\* this run's summary, tree and content, and no other path is touched.
C1_FourPathsUnderOutputDir ==
    Success =>
        /\ \A k \in {"summary", "tree", "content", "metadata"} :
              /\ SamePath(ResultFile(k),
                          OutputDirInUse \o <<"/">> \o loc.repo_id \o Suffix(k))
              /\ ResultFile(k) \in DOMAIN fs
        /\ fs[result.summary_file] = result.summary
        /\ fs[result.tree_file] = result.tree
        /\ fs[result.content_file] = result.content
        /\ \A q \in (DOMAIN fs \cup DOMAIN fs0) :
              q \notin {ResultFile(k) : k \in {"summary", "tree", "content", "metadata"}}
                  => Untouched(q)

\* C2: after a successful run the metadata file holds one record whose three
\* length counters are the lengths of the three text files as this run wrote
\* them, and whose repository_id is the resolved identifier.
C2_MetadataStats ==
    Success =>
        /\ Len(fs[result.metadata_file]) = 1
        /\ LET m == fs[result.metadata_file][1]
           IN  /\ m.stats.summary_length = Len(fs[result.summary_file])
               /\ m.stats.tree_length = Len(fs[result.tree_file])
               /\ m.stats.content_length = Len(fs[result.content_file])
               /\ fs[result.summary_file] = result.summary
               /\ fs[result.tree_file] = result.tree
               /\ fs[result.content_file] = result.content
               /\ m.repository_id = loc.repo_id
               /\ Truthy(call.repo_id) => m.repository_id = call.repo_id
               /\ ~Truthy(call.repo_id) => UrlId(call.repo_path, m.repository_id)
               /\ result.metadata_file =
                      PathJoin(OutputDirInUse, m.repository_id \o Suffix("metadata"))

\* a second run has succeeded with an empty tree between two texts of length 1
C2_Witness ==
    /\ Success
    /\ runs = 2
    /\ result.summary = <<"a">>
    /\ result.tree = << >>
    /\ result.content = <<"a">>
    /\ fs[result.metadata_file][1].stats.tree_length = 0

\* C3: when get_repo_dirs gives no candidate, the directory being empty or
\* its listing having failed, process_latest_repo raises the "no
\* repositories" error, the ingestion is not called and no file changes.
C3_NoCandidates ==
    (HasEvent("process_latest") /\ (~listing.ok \/ listing.names = << >>)) =>
        /\ pc = "exit"
        /\ raised = "ValueError"
        /\ exitCode = 1
        /\ HasEvent("no_repos")
        /\ ~HasEvent("ingest")
        /\ result = NoResult
        /\ fs = fs0

\* the listing failed in a run that follows a successful one
C3_Witness ==
    /\ HasEvent("process_latest")
    /\ ~listing.ok
    /\ raised = "ValueError"
    /\ runs = 2
    /\ Cardinality(DOMAIN fs) > 1

\* C6: when the ingestion raises, no file is written, every file is as it
\* was, and the error that reaches the caller is the one the ingestion raised.
C6_IngestionRaises ==
    \A i \in EventsOf({"ingest_raised"}) :
        /\ pc = "exit"
        /\ raised = trace[i].target[1]
        /\ exitCode = 1
        /\ EventsOf({"write", "write_raised"}) = {}
        /\ result = NoResult
        /\ fs = fs0

\* the ingestion raised, under process_latest_repo, where an earlier run had
\* left its four files
C6_Witness ==
    /\ HasEvent("ingest_raised")
    /\ call.via = "latest"
    /\ raised = "IngestError"
    /\ \A k \in {"summary", "tree", "content", "metadata"} :
          OutputFile(loc.output_dir, loc.repo_id, k) \in DOMAIN fs0

Writes == EventsOf({"write", "write_raised"})

\* the place of write event j among the writes of this run
Rank(j) == Cardinality({i \in Writes : i <= j})

WrittenData(n) ==
    CASE n = 1 -> loc.summary
      [] n = 2 -> loc.tree
      [] n = 3 -> loc.content
      [] n = 4 -> << Metadata(loc.repo_id, runs, loc.files,
                              loc.summary, loc.tree, loc.content) >>

\* C7: the ingestion is called once and before any write; the writes come
\* in the order summary, tree, content, metadata; a write that raises ends
\* the run with the error, the files written before it keep their new
\* contents and the files after it are not written.
C7_WriteOrder ==
    /\ Cardinality(EventsOf({"ingest"})) <= 1
    /\ Cardinality(Writes) <= 4
    /\ \A j \in Writes :
          /\ \E i \in EventsOf({"ingest"}) : i < j
          /\ trace[j].target = loc.files[FileKinds[Rank(j)]]
          /\ trace[j].op = "write" => fs[trace[j].target] = WrittenData(Rank(j))
          /\ trace[j].op = "write_raised" =>
                /\ j = Len(trace)
                /\ pc = "exit"
                /\ exitCode = 1
                /\ raised = "OSError"
                /\ result = NoResult
                /\ \A n \in (Rank(j) + 1)..4 : Untouched(loc.files[FileKinds[n]])

\* in a second run the third write raised; the summary written before it
\* holds its new text, which differs from what the first run left
C7_Witness ==
    /\ runs = 2
    /\ Cardinality(Writes) = 3
    /\ HasEvent("write_raised")
    /\ fs[loc.files["summary"]] = loc.summary
    /\ fs0[loc.files["summary"]] # loc.summary
    /\ fs[loc.files["metadata"]] = fs0[loc.files["metadata"]]

RaisingEvents == {"makedirs_raised", "ingest_raised", "write_raised", "no_repos"}

\* C8: main exits with status 1 exactly when the construction,
\* process_repository or process_latest_repo raised, the error being kept for
\* the log; it exits with status 0 after a successful run and on the listing
\* path, whatever the listing gave, and the listing path neither calls the
\* ingestion nor changes a file.
C8_ExitStatus ==
    /\ pc # "exit" => exitCode = Running
    /\ pc = "exit" =>
          /\ exitCode \in {0, 1}
          /\ exitCode = 1 <=> EventsOf(RaisingEvents) # {}
          /\ exitCode = 1 <=> raised # NoError
          /\ (~Truthy(args.repo) /\ ~args.latest /\ ~HasEvent("makedirs_raised"))
                => HasEvent("list")
          /\ HasEvent("list") =>
                /\ exitCode = 0
                /\ ~HasEvent("ingest")
                /\ fs = fs0

\* the listing path has ended where listing the directory failed
C8_Witness ==
    /\ pc = "exit"
    /\ HasEvent("list")
    /\ ~listing.ok
    /\ exitCode = 0

\* C10 as stated: the files object of the metadata holds absolute paths.
C10_AbsolutePaths ==
    Success =>
        \A k \in {"summary", "tree", "content"} :
            StartsWith(fs[result.metadata_file][1].files[k], <<"/">>)

\* C10 as amended: the files object of the metadata holds the output
\* directory joined with the file names, the strings returned to the caller
\* and the paths written; they are absolute when the output directory in use
\* or the identifier begins with "/", and relative otherwise.
C10_FilesAsJoined ==
    Success =>
        LET m == fs[result.metadata_file][1]
        IN  /\ m.files.summary = result.summary_file
            /\ m.files.tree = result.tree_file
            /\ m.files.content = result.content_file
            /\ \A k \in {"summary", "tree", "content"} :
                  /\ m.files[k] \in DOMAIN fs
                  /\ EndsWith(m.files[k], loc.repo_id \o Suffix(k))
                  /\ StartsWith(m.files[k], <<"/">>)
                        <=> (StartsWith(OutputDirInUse, <<"/">>)
                             \/ StartsWith(loc.repo_id, <<"/">>))

\* a run given the relative output directory "o" has succeeded
C10_Witness ==
    /\ Success
    /\ args.output_dir = <<"o">>
    /\ fs[result.metadata_file][1].files.summary = <<"o", "/", "r", "_summary.txt">>
    /\ result.summary_file = <<"o", "/", "r", "_summary.txt">>

---------------------------------------------------------------------------
(* Two runs of process_repository at once, in two processes, for the same  *)
(* reference, output directory and identifier.  Each run opens, writes and *)
(* closes its four files in turn; between these steps the other run may    *)
(* take any number of its own.  A handle opened with 'w' has its own       *)
(* offset, and the text of one f.write reaches the file in one write.      *)

RaceRepo == <<"u", "/", "g">>

RaceFiles ==
    OutputFiles(ResolveOutputDir(None, DefaultTempDir),
                ResolveRepoId(RaceRepo, None, FALSE))

RaceChar(p) == IF p = 1 THEN "a" ELSE "b"

\* what the ingestion may return to run p
RaceResults(p) ==
    {<< b, << RaceChar(p) >>, << >> >> : b \in SeqsUpTo({RaceChar(p)}, MaxRaceLen)}

\* what run p writes to its n-th file
RaceData(p, n) ==
    CASE n = 1 -> rres[p][1]
      [] n = 2 -> rres[p][2]
      [] n = 3 -> rres[p][3]
      [] n = 4 -> << Metadata(ResolveRepoId(RaceRepo, None, FALSE), p, RaceFiles,
                              rres[p][1], rres[p][2], rres[p][3]) >>

RaceIngest(p) ==
    /\ rpc[p].step = "ingest"
    /\ \E r \in RaceResults(p) : rres' = [rres EXCEPT ![p] = r]
    /\ rpc' = [rpc EXCEPT ![p] = [file |-> 1, step |-> "open"]]
    /\ UNCHANGED <<fs, rlast, rover>>
    /\ UNCHANGED cliVars

\* another run holds the file of run p open
HeldByOther(p) ==
    \E q \in {1, 2} \ {p} :
        /\ rpc[q].file = rpc[p].file
        /\ rpc[q].step \in {"write", "close"}

\* open(file, 'w')
RaceOpen(p) ==
    /\ rpc[p].step = "open"
    /\ LET k == FileKinds[rpc[p].file]
       IN  /\ fs' = Truncate(fs, RaceFiles[k])
           /\ rlast' = [rlast EXCEPT ![k] = p]
           /\ rover' = [rover EXCEPT ![k] = @ \/ HeldByOther(p)]
    /\ rpc' = [rpc EXCEPT ![p].step = "write"]
    /\ UNCHANGED rres
    /\ UNCHANGED cliVars

\* f.write(text): the text reaches the file at the start of the handle; an
\* empty text writes nothing
RaceWrite(p) ==
    /\ rpc[p].step = "write"
    /\ LET k == FileKinds[rpc[p].file]
           data == RaceData(p, rpc[p].file)
       IN  /\ fs' = Overwrite(fs, RaceFiles[k], data)
           /\ rlast' = [rlast EXCEPT ![k] = IF data = << >> THEN @ ELSE p]
    /\ rpc' = [rpc EXCEPT ![p].step = "close"]
    /\ UNCHANGED <<rres, rover>>
    /\ UNCHANGED cliVars

\* the with block ends; the next file follows
RaceClose(p) ==
    /\ rpc[p].step = "close"
    /\ rpc' = [rpc EXCEPT ![p] =
                  IF rpc[p].file = 4 THEN [file |-> 5, step |-> "done"]
                  ELSE [file |-> rpc[p].file + 1, step |-> "open"]]
    /\ UNCHANGED <<fs, rres, rlast, rover>>
    /\ UNCHANGED cliVars

RaceStep(p) == RaceIngest(p) \/ RaceOpen(p) \/ RaceWrite(p) \/ RaceClose(p)

InitRace ==
    /\ fs = [q \in {OtherFile} |-> <<"a">>]
    /\ fs0 = fs
    /\ runs = 1
    /\ args = [repo |-> RaceRepo, latest |-> FALSE, temp_dir |-> None,
               output_dir |-> None, repo_id |-> None]
    /\ pc = "concurrent"
    /\ temp_dir = DefaultTempDir
    /\ call = NoCall
    /\ loc = NoLoc
    /\ result = NoResult
    /\ raised = NoError
    /\ exitCode = Running
    /\ trace = << >>
    /\ listing = NoListing
    /\ rpc = [p \in {1, 2} |-> [file |-> 0, step |-> "ingest"]]
    /\ rres = [p \in {1, 2} |-> <<None, None, None>>]
    /\ rlast = [k \in {"summary", "tree", "content", "metadata"} |-> 0]
    /\ rover = [k \in {"summary", "tree", "content", "metadata"} |-> FALSE]

NextRace ==
    \/ \E p \in {1, 2} : RaceIngest(p)
    \/ \E p \in {1, 2} : RaceOpen(p)
    \/ \E p \in {1, 2} : RaceWrite(p)
    \/ \E p \in {1, 2} : RaceClose(p)

SpecRace == InitRace /\ [][NextRace]_vars

---------------------------------------------------------------------------
(* Properties of two runs at once (checked under SpecRace) *)

AllDone == \A p \in {1, 2} : rpc[p].step = "done"

\* C9 as stated: when both runs have ended, each of the four paths holds
\* what the run that wrote it last put there.
C9_LastWriterWinsPerFile ==
    AllDone =>
        \A n \in 1..4 : fs[RaceFiles[FileKinds[n]]] = RaceData(rlast[FileKinds[n]], n)

\* C9 as amended: no run waits for the other or fails because of it; when
\* both have ended, a path that the two runs did not hold open at the same
\* time holds what the run that wrote it last put there; a text file both
\* held open at once holds at each position the character one of the two
\* runs wrote there and is no longer than the longer of the two texts; no
\* other file changes.
C9_LastWriterWinsWithoutOverlap ==
    /\ \A p \in {1, 2} : rpc[p].step # "done" => ENABLED RaceStep(p)
    /\ fs[OtherFile] = fs0[OtherFile]
    /\ DOMAIN fs \subseteq {OtherFile} \cup {RaceFiles[FileKinds[n]] : n \in 1..4}
    /\ AllDone =>
          \A n \in 1..4 :
              LET k == FileKinds[n]
                  held == fs[RaceFiles[k]]
              IN  /\ ~rover[k] => held = RaceData(rlast[k], n)
                  /\ \E p \in {1, 2} : Len(held) <= Len(RaceData(p, n))
                  /\ n < 4 =>
                        \A i \in 1..Len(held) :
                            \E p \in {1, 2} :
                                /\ i <= Len(RaceData(p, n))
                                /\ held[i] = RaceData(p, n)[i]

\* both runs have ended; they held the summary open at once and it holds a
\* mix of their texts; they did not hold the tree open at once and it holds
\* the text of the run that wrote it last
C9_Witness ==
    /\ AllDone
    /\ rover["summary"]
    /\ fs[RaceFiles["summary"]] = <<"b", "a">>
    /\ rlast["summary"] = 2
    /\ ~rover["tree"]
    /\ rlast["tree"] = 1
    /\ fs[RaceFiles["tree"]] = <<"a">>

====
